---- MODULE Spec2Model ----
(***************************************************************************)
(* A model of mmd_tools/core/material.py: FnMaterial, the wrapper that     *)
(* attaches and detaches the base, toon and sphere texture slots of a      *)
(* material, deduplicates textures and images by file, allocates           *)
(* material ids lazily and copies the shadow properties onto the           *)
(* material's flags.                                                       *)
(*                                                                         *)
(* The state is the part of bpy.data the module touches: the materials     *)
(* (their mmd_material properties, their flags, their three texture        *)
(* slots), the textures and the images.  Datablocks are identified by     *)
(* their name, which Blender keeps unique within a collection; a           *)
(* reference that is Python's None is NoId.  The user counts (ID.users)    *)
(* are stored, and maintained by the host primitives as Blender            *)
(* maintains them.                                                         *)
(***************************************************************************)
EXTENDS Integers, Sequences, FiniteSets, TLC

VARIABLES mmd_material, material, texture_slots, textures, images

vars == <<mmd_material, material, texture_slots, textures, images>>

(* ------------------------------------------------------------------ *)
(* Program constants                                                   *)
(* ------------------------------------------------------------------ *)
SPHERE_MODE_OFF == 0
SPHERE_MODE_MULT == 1
SPHERE_MODE_ADD == 2
SPHERE_MODE_SUBTEX == 3

BASE_TEX_SLOT == 0
TOON_TEX_SLOT == 1
SPHERE_TEX_SLOT == 2

(* ------------------------------------------------------------------ *)
(* Bounds                                                              *)
(* ------------------------------------------------------------------ *)
\* Largest material_id the lazy getter is let to allocate.
MaxMaterialId == 5
\* Largest material_id a scene starts with.
MaxInitId == 3

Materials == {"m1", "m2", "m3"}
\* The materials FnMaterial is constructed on: every method is called on
\* m1, and create_texture / remove_texture on m2 as well; m3 is a material
\* of the scene that only the host touches.
Callers == {"m1"}
BaseCallers == {"m1", "m2"}
SlotIndices == {BASE_TEX_SLOT, TOON_TEX_SLOT, SPHERE_TEX_SLOT}

\* Python's None, as a datablock reference (no datablock has an empty name).
NoId == ""

(* ------------------------------------------------------------------ *)
(* The file system and the path functions of os.path / bpy.path        *)
(* ------------------------------------------------------------------ *)
\* The inode behind a path, "" when nothing is there.  link_a.png is a
\* symbolic link to a.png; the first shared toon bitmap is stored with a
\* capital T; toon10.bmp and missing.png do not exist.
FileOf(path) ==
    CASE path = "/tex/a.png"        -> "ino_a"
      [] path = "/tex/link_a.png"   -> "ino_a"
      [] path = "/toons/Toon01.bmp" -> "ino_toon01"
      [] path = "/toons/toon03.bmp" -> "ino_toon03"
      [] path = "foo.png"           -> "ino_foo"
      [] OTHER                      -> ""

exists(path) == FileOf(path) # ""

\* os.path.samefile: [raised |-> TRUE] when either path cannot be stat'ed.
samefile(p, q) ==
    IF exists(p) /\ exists(q)
    THEN [raised |-> FALSE, value |-> FileOf(p) = FileOf(q)]
    ELSE [raised |-> TRUE, value |-> FALSE]

\* os.path.basename, on the paths of this file system.
basename(path) ==
    CASE path = "/tex/a.png"        -> "a.png"
      [] path = "/tex/link_a.png"   -> "link_a.png"
      [] path = "/tex/missing.png"  -> "missing.png"
      [] path = "/toons/Toon01.bmp" -> "Toon01.bmp"
      [] path = "/toons/toon01.bmp" -> "toon01.bmp"
      [] path = "/toons/toon03.bmp" -> "toon03.bmp"
      [] path = "/toons/toon10.bmp" -> "toon10.bmp"
      [] OTHER                      -> path

\* bpy.path.display_name_from_filepath: the base name without extension.
display_name_from_filepath(path) ==
    CASE path = "/tex/a.png"        -> "a"
      [] path = "/tex/link_a.png"   -> "link_a"
      [] path = "/tex/missing.png"  -> "missing"
      [] path = "/toons/Toon01.bmp" -> "Toon01"
      [] path = "/toons/toon01.bmp" -> "toon01"
      [] path = "/toons/toon03.bmp" -> "toon03"
      [] path = "/toons/toon10.bmp" -> "toon10"
      [] path = "foo.png"           -> "foo"
      [] OTHER                      -> path

\* bpy.path.resolve_ncase: the path itself when it exists, else the entry
\* of the directory that matches it ignoring case, else the path itself.
resolve_ncase(path) ==
    IF exists(path) THEN path
    ELSE IF path = "/toons/toon01.bmp" THEN "/toons/Toon01.bmp"
    ELSE path

\* os.path.join(a, b) for a relative b.
path_join(a, b) == IF a = "" THEN b ELSE a \o "/" \o b

\* '%02d' % n, for n >= 0.
format_02d(n) == IF n < 10 THEN "0" \o ToString(n) ELSE ToString(n)

\* mmd_tools.addon_preferences('shared_toon_folder', '').
shared_toon_folder == "/toons"

(* ------------------------------------------------------------------ *)
(* bpy.data as a record, and the host primitives the module calls      *)
(* ------------------------------------------------------------------ *)
\* An empty entry of material.texture_slots (None in Python).
NoSlot ==
    [present |-> FALSE, use |-> TRUE, blend_type |-> "MIX",
     texture_coords |-> "UV", use_map_alpha |-> FALSE, texture |-> NoId]

\* The state as one value, with the warnings an operation logs.
World ==
    [mmd |-> mmd_material, mat |-> material, slots |-> texture_slots,
     tex |-> textures, img |-> images, log |-> << >>]

\* id_us_plus / id_us_min on a texture and on an image.
tex_users_add(w, t, d) ==
    IF t = NoId THEN w ELSE [w EXCEPT !.tex[t].users = @ + d]

img_users_add(w, i, d) ==
    IF i = NoId THEN w ELSE [w EXCEPT !.img[i].users = @ + d]

\* material.texture_slots.create(index): an occupied slot is freed (its
\* texture loses a user and stays in bpy.data) and replaced by a default
\* slot; the on/off toggle is reset only when the slot was empty.
texture_slots_create(w, m, index) ==
    LET old == w.slots[m][index]
        w1  == IF old.present THEN tex_users_add(w, old.texture, -1) ELSE w
    IN [w1 EXCEPT !.slots[m][index] =
            [NoSlot EXCEPT !.present = TRUE,
                           !.use = IF old.present THEN old.use ELSE TRUE]]

\* material.texture_slots.clear(index).
texture_slots_clear(w, m, index) ==
    LET old == w.slots[m][index]
        w1  == IF old.present THEN tex_users_add(w, old.texture, -1) ELSE w
    IN [w1 EXCEPT !.slots[m][index] = NoSlot]

\* texture_slot.texture = tex.
slot_set_texture(w, m, index, t) ==
    LET w1 == tex_users_add(w, w.slots[m][index].texture, -1)
        w2 == tex_users_add(w1, t, 1)
    IN [w2 EXCEPT !.slots[m][index].texture = t]

\* tex.image = img.
tex_set_image(w, t, i) ==
    LET w1 == img_users_add(w, w.tex[t].image, -1)
        w2 == img_users_add(w1, i, 1)
    IN [w2 EXCEPT !.tex[t].image = i]

\* The name a new datablock gets: the one asked for, with Blender's
\* numeric suffix when it is taken.
unique_name(used, name) ==
    IF name \notin used THEN name
    ELSE IF (name \o ".001") \notin used THEN name \o ".001"
    ELSE name \o ".002"

\* bpy.data collections are kept sorted by name: the names of this model,
\* in that order.
sorted_names ==
    <<"a", "a.001", "a.002", "a.png", "a.png.001", "a.png.002",
      "foo", "foo.png", "link_a", "link_a.png", "missing", "missing.png",
      "Toon01", "Toon01.bmp", "toon03", "toon03.bmp", "toon10", "toon10.bmp">>

\* The first datablock of S in iteration order.
first_of(S) ==
    LET k == CHOOSE k \in 1..Len(sorted_names) :
                 /\ sorted_names[k] \in S
                 /\ \A j \in 1..(k - 1) : sorted_names[j] \notin S
    IN sorted_names[k]

store_add(store, id, rec) == (id :> rec) @@ store

store_remove(store, id) == [k \in (DOMAIN store) \ {id} |-> store[k]]

\* bpy.data.images.load(filepath): raises when the file cannot be read.
can_load(filepath) == exists(filepath)

images_load(w, filepath) ==
    LET i == unique_name(DOMAIN w.img, basename(filepath))
    IN [w   |-> [w EXCEPT !.img = store_add(w.img, i,
                    [filepath |-> filepath,
                     source |-> "FILE", size |-> <<64, 64>>,
                     use_alpha |-> TRUE, users |-> 0])],
        ret |-> i]

\* bpy.data.images.new(name, width, height).
images_new(w, name, width, height) ==
    LET i == unique_name(DOMAIN w.img, name)
    IN [w   |-> [w EXCEPT !.img = store_add(w.img, i,
                    [filepath |-> "",
                     source |-> "GENERATED", size |-> <<width, height>>,
                     use_alpha |-> TRUE, users |-> 0])],
        ret |-> i]

\* bpy.data.textures.new(name, type).
textures_new(w, name, type) ==
    LET t == unique_name(DOMAIN w.tex, name)
    IN [w   |-> [w EXCEPT !.tex = store_add(w.tex, t,
                    [type |-> type, image |-> NoId,
                     use_alpha |-> TRUE, extension |-> "REPEAT",
                     users |-> 0])],
        ret |-> t]

\* bpy.data.textures.remove(tex) / bpy.data.images.remove(img).
textures_remove(w, t) == [w EXCEPT !.tex = store_remove(w.tex, t)]

images_remove(w, i) == [w EXCEPT !.img = store_remove(w.img, i)]

\* image.filepath_from_user(): the absolute form of image.filepath.  The
\* paths of this model carry no "//" prefix, which is all bpy.path.abspath
\* rewrites.
filepath_from_user(image) == image.filepath

(* ------------------------------------------------------------------ *)
(* FnMaterial                                                          *)
(* ------------------------------------------------------------------ *)
max(a, b) == IF a >= b THEN a ELSE b

\* A slip in the scan of material_id: max_id starts at 0.
max_material_id_from_zero(w) ==
    LET ids == {w.mmd[mat].material_id : mat \in Materials} \cup {0}
    IN CHOOSE x \in ids : \A y \in ids : max(x, y) = x

\* The largest material_id of bpy.data.materials, -1 at least: the scan
\* of material_id.
max_material_id(w) ==
    LET ids == {w.mmd[mat].material_id : mat \in Materials} \cup {-1}
    IN CHOOSE x \in ids : \A y \in ids : max(x, y) = x

\* FnMaterial.from_material_id: the materials with that id (the scan
\* returns the first of them), the empty set for None.
from_material_id(w, id) == {mat \in Materials : w.mmd[mat].material_id = id}

\* A slip in material_id: the largest id itself is assigned.
material_id_without_increment(w, m) ==
    LET w1 == IF w.mmd[m].material_id < 0
              THEN [w EXCEPT !.mmd[m].material_id = max_material_id(w)]
              ELSE w
    IN [w |-> w1, ret |-> w1.mmd[m].material_id]

\* FnMaterial(m).material_id: the lazy getter.
material_id(w, m) ==
    LET w1 == IF w.mmd[m].material_id < 0
              THEN [w EXCEPT !.mmd[m].material_id = max_material_id(w) + 1]
              ELSE w
    IN [w |-> w1, ret |-> w1.mmd[m].material_id]

\* FnMaterial.__same_image_file(image, filepath), image a reference.
same_image_file(w, image, filepath) ==
    IF image # NoId /\ w.img[image].source = "FILE"
    THEN LET img_filepath == filepath_from_user(w.img[image])
         IN IF img_filepath = filepath
            THEN TRUE
            ELSE LET r == samefile(img_filepath, filepath)
                 IN IF r.raised THEN FALSE ELSE r.value
    ELSE FALSE

\* A slip in __load_image: the placeholder is not given the filepath.
load_image_without_filepath(w, filepath) ==
    LET found == {i \in DOMAIN w.img : same_image_file(w, i, filepath)}
    IN IF found # {}
       THEN [w |-> w, ret |-> first_of(found)]
       ELSE IF can_load(filepath)
       THEN images_load(w, filepath)
       ELSE LET w1 == [w EXCEPT !.log = Append(@,
                          "Cannot create a texture for " \o filepath
                              \o ". No such file.")]
                r  == images_new(w1, basename(filepath), 1, 1)
            IN [w   |-> [r.w EXCEPT !.img[r.ret].source = "FILE"],
                ret |-> r.ret]

\* A slip in __load_image: the placeholder is not marked file-backed.
load_image_without_source(w, filepath) ==
    LET found == {i \in DOMAIN w.img : same_image_file(w, i, filepath)}
    IN IF found # {}
       THEN [w |-> w, ret |-> first_of(found)]
       ELSE IF can_load(filepath)
       THEN images_load(w, filepath)
       ELSE LET w1 == [w EXCEPT !.log = Append(@,
                          "Cannot create a texture for " \o filepath
                              \o ". No such file.")]
                r  == images_new(w1, basename(filepath), 1, 1)
            IN [w   |-> [r.w EXCEPT !.img[r.ret].filepath = filepath],
                ret |-> r.ret]

\* FnMaterial.__load_image(filepath).
load_image(w, filepath) ==
    LET found == {i \in DOMAIN w.img : same_image_file(w, i, filepath)}
    IN IF found # {}
       THEN [w |-> w, ret |-> first_of(found)]
       ELSE IF can_load(filepath)
       THEN images_load(w, filepath)
       ELSE LET w1 == [w EXCEPT !.log = Append(@,
                          "Cannot create a texture for " \o filepath
                              \o ". No such file.")]
                r  == images_new(w1, basename(filepath), 1, 1)
            IN [w   |-> [r.w EXCEPT !.img[r.ret].source = "FILE",
                                    !.img[r.ret].filepath = filepath],
                ret |-> r.ret]

\* A slip in __load_texture: no search for a texture of the same file.
load_texture_without_search(w, filepath) ==
    LET r1 == textures_new(w, display_name_from_filepath(filepath), "IMAGE")
        r2 == load_image(r1.w, filepath)
    IN [w |-> tex_set_image(r2.w, r1.ret, r2.ret), ret |-> r1.ret]

\* FnMaterial.__load_texture(filepath).
load_texture(w, filepath) ==
    LET found == {t \in DOMAIN w.tex :
                     /\ w.tex[t].type = "IMAGE"
                     /\ same_image_file(w, w.tex[t].image, filepath)}
    IN IF found # {}
       THEN [w |-> w, ret |-> first_of(found)]
       ELSE LET r1 == textures_new(w, display_name_from_filepath(filepath),
                                   "IMAGE")
                r2 == load_image(r1.w, filepath)
            IN [w |-> tex_set_image(r2.w, r1.ret, r2.ret), ret |-> r1.ret]

\* texture_slot.texture.use_alpha = texture_slot.texture.image.use_alpha
\* = False.
clear_use_alpha(w, t) ==
    LET i == w.tex[t].image
    IN [w EXCEPT !.tex[t].use_alpha = FALSE, !.img[i].use_alpha = FALSE]

\* FnMaterial(m).create_texture(filepath).
create_texture(w, m, filepath) ==
    LET w1 == texture_slots_create(w, m, BASE_TEX_SLOT)
        w2 == [w1 EXCEPT !.slots[m][BASE_TEX_SLOT].use_map_alpha = TRUE,
                         !.slots[m][BASE_TEX_SLOT].texture_coords = "UV",
                         !.slots[m][BASE_TEX_SLOT].blend_type = "MULTIPLY"]
        r  == load_texture(w2, filepath)
    IN slot_set_texture(r.w, m, BASE_TEX_SLOT, r.ret)

\* A slip in remove_texture: the image's users are looked at while the
\* texture still holds it.
remove_texture_image_still_held(w, m, index) ==
    LET texture_slot == w.slots[m][index]
    IN IF ~texture_slot.present THEN w
       ELSE LET tex == texture_slot.texture
                w1  == texture_slots_clear(w, m, index)
            IN IF tex # NoId /\ w1.tex[tex].users < 1
               THEN LET img == w1.tex[tex].image
                        w3  == textures_remove(w1, tex)
                    IN IF img # NoId /\ w1.img[img].users < 1
                       THEN images_remove(w3, img)
                       ELSE w3
               ELSE w1

\* A slip in remove_texture: the texture is removed whoever else uses it.
remove_texture_ignoring_users(w, m, index) ==
    LET texture_slot == w.slots[m][index]
    IN IF ~texture_slot.present THEN w
       ELSE LET tex == texture_slot.texture
                w1  == texture_slots_clear(w, m, index)
            IN IF tex # NoId
               THEN LET img == w1.tex[tex].image
                        w2  == tex_set_image(w1, tex, NoId)
                        w3  == textures_remove(w2, tex)
                    IN IF img # NoId /\ w3.img[img].users < 1
                       THEN images_remove(w3, img)
                       ELSE w3
               ELSE w1

\* FnMaterial(m).remove_texture(index).
remove_texture(w, m, index) ==
    LET texture_slot == w.slots[m][index]
    IN IF ~texture_slot.present THEN w
       ELSE LET tex == texture_slot.texture
                w1  == texture_slots_clear(w, m, index)
            IN IF tex # NoId /\ w1.tex[tex].users < 1
               THEN LET img == w1.tex[tex].image
                        w2  == tex_set_image(w1, tex, NoId)
                        w3  == textures_remove(w2, tex)
                    IN IF img # NoId /\ w3.img[img].users < 1
                       THEN images_remove(w3, img)
                       ELSE w3
               ELSE w1

\* int(s) for the decimal spelling s of a small number.
int_of(s) ==
    CASE s = "0" -> 0
      [] s = "1" -> 1
      [] s = "2" -> 2
      [] s = "3" -> 3

\* A slip in update_sphere_texture_type: disabling the slot also resets
\* its blend mode.
update_sphere_texture_type_resetting_blend(w, m) ==
    LET texture_slot == w.slots[m][SPHERE_TEX_SLOT]
        sphere_texture_type == int_of(w.mmd[m].sphere_texture_type)
    IN IF ~texture_slot.present THEN w
       ELSE IF sphere_texture_type \notin {1, 2, 3}
       THEN [w EXCEPT !.slots[m][SPHERE_TEX_SLOT].use = FALSE,
                      !.slots[m][SPHERE_TEX_SLOT].blend_type = "MIX"]
       ELSE [w EXCEPT !.slots[m][SPHERE_TEX_SLOT].use = TRUE,
                      !.slots[m][SPHERE_TEX_SLOT].blend_type =
                          <<"MULTIPLY", "ADD", "SUBTRACT">>
                              [(sphere_texture_type - 1) + 1]]

\* FnMaterial(m).update_sphere_texture_type().  A Python tuple is indexed
\* from 0, a TLA+ tuple from 1.
update_sphere_texture_type(w, m) ==
    LET texture_slot == w.slots[m][SPHERE_TEX_SLOT]
        sphere_texture_type == int_of(w.mmd[m].sphere_texture_type)
    IN IF ~texture_slot.present THEN w
       ELSE IF sphere_texture_type \notin {1, 2, 3}
       THEN [w EXCEPT !.slots[m][SPHERE_TEX_SLOT].use = FALSE]
       ELSE [w EXCEPT !.slots[m][SPHERE_TEX_SLOT].use = TRUE,
                      !.slots[m][SPHERE_TEX_SLOT].blend_type =
                          <<"MULTIPLY", "ADD", "SUBTRACT">>
                              [(sphere_texture_type - 1) + 1]]

\* FnMaterial(m).create_sphere_texture(filepath).
create_sphere_texture(w, m, filepath) ==
    LET w1 == texture_slots_create(w, m, SPHERE_TEX_SLOT)
        w2 == [w1 EXCEPT !.slots[m][SPHERE_TEX_SLOT].texture_coords = "NORMAL"]
        r  == load_texture(w2, filepath)
        w3 == slot_set_texture(r.w, m, SPHERE_TEX_SLOT, r.ret)
        w4 == clear_use_alpha(w3, r.ret)
    IN update_sphere_texture_type(w4, m)

\* FnMaterial(m).remove_sphere_texture().
remove_sphere_texture(w, m) == remove_texture(w, m, SPHERE_TEX_SLOT)

\* FnMaterial(m).create_toon_texture(filepath).
create_toon_texture(w, m, filepath) ==
    LET w1 == texture_slots_create(w, m, TOON_TEX_SLOT)
        w2 == [w1 EXCEPT !.slots[m][TOON_TEX_SLOT].texture_coords = "NORMAL",
                         !.slots[m][TOON_TEX_SLOT].blend_type = "MULTIPLY"]
        r  == load_texture(w2, filepath)
        w3 == slot_set_texture(r.w, m, TOON_TEX_SLOT, r.ret)
        w4 == clear_use_alpha(w3, r.ret)
    IN [w4 EXCEPT !.tex[r.ret].extension = "EXTEND"]

\* FnMaterial(m).remove_toon_texture().
remove_toon_texture(w, m) == remove_texture(w, m, TOON_TEX_SLOT)

\* A slip in update_toon_texture: the index is not counted from 1.
shared_toon_path_from_zero(index) ==
    resolve_ncase(path_join(shared_toon_folder,
                            "toon" \o format_02d(index) \o ".bmp"))

\* The path update_toon_texture composes for a shared toon bitmap.
shared_toon_path(index) ==
    resolve_ncase(path_join(shared_toon_folder,
                            "toon" \o format_02d(index + 1) \o ".bmp"))

\* FnMaterial(m).update_toon_texture().
update_toon_texture(w, m) ==
    LET mmd_mat == w.mmd[m]
    IN IF mmd_mat.is_shared_toon_texture
       THEN create_toon_texture(w, m,
                                shared_toon_path(mmd_mat.shared_toon_texture))
       ELSE IF mmd_mat.toon_texture # ""
       THEN create_toon_texture(w, m, mmd_mat.toon_texture)
       ELSE remove_toon_texture(w, m)

\* FnMaterial(m).update_drop_shadow().
update_drop_shadow(w, m) == w

\* hasattr(mat, 'use_cast_shadows'): the flag exists from Blender 2.71 on.
has_use_cast_shadows(w, m) == w.mat[m].has_use_cast_shadows

\* FnMaterial(m).update_self_shadow_map().
update_self_shadow_map(w, m) ==
    LET w1 == [w EXCEPT !.mat[m].use_cast_buffer_shadows =
                            w.mmd[m].enabled_self_shadow_map]
    IN IF has_use_cast_shadows(w1, m)
       THEN [w1 EXCEPT !.mat[m].use_cast_shadows =
                           w.mmd[m].enabled_self_shadow_map]
       ELSE w1

\* FnMaterial(m).update_self_shadow().
update_self_shadow(w, m) ==
    [w EXCEPT !.mat[m].use_shadows = w.mmd[m].enabled_self_shadow,
              !.mat[m].use_transparent_shadows = w.mmd[m].enabled_self_shadow]

(* ------------------------------------------------------------------ *)
(* Initial states                                                      *)
(* ------------------------------------------------------------------ *)
\* The paths the callers pass to create_*_texture.
Paths == {"/tex/a.png", "/tex/link_a.png", "/tex/missing.png"}

\* The values of the sphere_texture_type enum property: the identifiers
\* of its items, which are the decimal spellings of the SPHERE_MODE_*.
SphereTextureTypes ==
    {ToString(SPHERE_MODE_OFF), ToString(SPHERE_MODE_MULT),
     ToString(SPHERE_MODE_ADD), ToString(SPHERE_MODE_SUBTEX)}

\* Toon settings of a material: the three branches of update_toon_texture,
\* the shared one with an existing, a case-resolved and a missing bitmap
\* and with a literal path set beside it.
ToonSettings ==
    {[is_shared_toon_texture |-> TRUE,  shared_toon_texture |-> 2,
      toon_texture |-> ""],
     [is_shared_toon_texture |-> TRUE,  shared_toon_texture |-> 0,
      toon_texture |-> ""],
     [is_shared_toon_texture |-> TRUE,  shared_toon_texture |-> 9,
      toon_texture |-> "foo.png"],
     [is_shared_toon_texture |-> FALSE, shared_toon_texture |-> 2,
      toon_texture |-> "foo.png"],
     [is_shared_toon_texture |-> FALSE, shared_toon_texture |-> 0,
      toon_texture |-> ""]}

\* The properties of a material the importer has filled in.
mmd_material_of(id, sphere, toon, shadow_map, shadow) ==
    [material_id |-> id, sphere_texture_type |-> sphere,
     is_shared_toon_texture |-> toon.is_shared_toon_texture,
     shared_toon_texture |-> toon.shared_toon_texture,
     toon_texture |-> toon.toon_texture,
     enabled_self_shadow_map |-> shadow_map,
     enabled_self_shadow |-> shadow]

\* A material's flags as Blender creates it.
default_material(has_flag) ==
    [use_cast_buffer_shadows |-> TRUE, use_cast_shadows |-> TRUE,
     use_shadows |-> TRUE, use_transparent_shadows |-> FALSE,
     has_use_cast_shadows |-> has_flag]

\* A new scene: no slot, no texture, no image.
EmptyScene ==
    [slots |-> [m \in Materials |-> [i \in SlotIndices |-> NoSlot]],
     tex   |-> [t \in {} |-> 0],
     img   |-> [i \in {} |-> 0]]

\* A scene the artist has worked on: two textures made from the same image
\* of a.png, one in the sphere slot of m1 (blended ADD), one in the base
\* slot of m3.
HostScene ==
    [slots |-> [m \in Materials |-> [i \in SlotIndices |->
                  IF m = "m1" /\ i = SPHERE_TEX_SLOT
                  THEN [NoSlot EXCEPT !.present = TRUE, !.texture = "a",
                                      !.texture_coords = "NORMAL",
                                      !.blend_type = "ADD"]
                  ELSE IF m = "m3" /\ i = BASE_TEX_SLOT
                  THEN [NoSlot EXCEPT !.present = TRUE, !.texture = "a.001"]
                  ELSE NoSlot]],
     tex   |-> [t \in {"a", "a.001"} |->
                  [type |-> "IMAGE", image |-> "a.png",
                   use_alpha |-> TRUE, extension |-> "REPEAT", users |-> 1]],
     img   |-> [i \in {"a.png"} |->
                  [filepath |-> "/tex/a.png",
                   source |-> "FILE", size |-> <<64, 64>>,
                   use_alpha |-> TRUE, users |-> 2]]]

\* The state holds scene, with the given properties and flags.
InitScene(scene, mmd, mat) ==
    /\ mmd_material = mmd
    /\ material = mat
    /\ texture_slots = scene.slots
    /\ textures = scene.tex
    /\ images = scene.img

\* The toon settings of a material without toon texture.
NoToon ==
    [is_shared_toon_texture |-> FALSE, shared_toon_texture |-> 0,
     toon_texture |-> ""]

\* Scenes whose materials have no id yet and no shadow property set, each
\* caller with any sphere type and any of the toon settings.
InitSlotsIn(scenes) ==
    \E scene \in scenes :
    \E sphere \in [Callers -> SphereTextureTypes] :
    \E toon \in [Callers -> ToonSettings] :
        InitScene(scene,
                  [m \in Materials |->
                      IF m \in Callers
                      THEN mmd_material_of(-1, sphere[m], toon[m], FALSE, FALSE)
                      ELSE mmd_material_of(-1, ToString(SPHERE_MODE_OFF), NoToon,
                                           FALSE, FALSE)],
                  [m \in Materials |-> default_material(TRUE)])

InitSlots == InitSlotsIn({EmptyScene, HostScene})

InitEmpty == InitSlotsIn({EmptyScene})

\* The ids a scene starts with: unassigned (negative) or assigned by the
\* importer, no two materials with the same assigned id.
InitIds ==
    {ids \in [Materials -> (-2)..MaxInitId] :
        \A m1, m2 \in Materials :
            (m1 # m2 /\ ids[m1] >= 0) => ids[m1] # ids[m2]}

\* New scenes that differ in the material ids.
InitId ==
    \E ids \in InitIds :
        InitScene(EmptyScene,
                  [m \in Materials |->
                      mmd_material_of(ids[m], ToString(SPHERE_MODE_OFF), NoToon,
                                      FALSE, FALSE)],
                  [m \in Materials |-> default_material(TRUE)])

\* Scenes in which m1 has any sphere type, toon setting and shadow
\* properties, on a Blender with and without use_cast_shadows.
InitUpdate ==
    \E scene \in {EmptyScene, HostScene} :
    \E sphere \in SphereTextureTypes, toon \in ToonSettings :
    \E shadow_map \in BOOLEAN, shadow \in BOOLEAN, has_flag \in BOOLEAN :
        InitScene(scene,
                  [m \in Materials |->
                      IF m \in Callers
                      THEN mmd_material_of(-1, sphere, toon, shadow_map, shadow)
                      ELSE mmd_material_of(-1, ToString(SPHERE_MODE_OFF), NoToon,
                                           FALSE, FALSE)],
                  [m \in Materials |-> default_material(has_flag)])

Init == InitSlots \/ InitId \/ InitUpdate

(* ------------------------------------------------------------------ *)
(* Actions: one per public operation of FnMaterial                     *)
(* ------------------------------------------------------------------ *)
\* The state becomes w (the log is output, not state).
Apply(w) ==
    /\ mmd_material' = w.mmd
    /\ material' = w.mat
    /\ texture_slots' = w.slots
    /\ textures' = w.tex
    /\ images' = w.img

ReadMaterialId ==
    \E m \in Materials :
        LET r == material_id(World, m)
        IN r.ret <= MaxMaterialId /\ Apply(r.w)

CreateTexture ==
    \E m \in BaseCallers, filepath \in Paths :
        Apply(create_texture(World, m, filepath))

CreateSphereTexture ==
    \E m \in Callers, filepath \in Paths :
        Apply(create_sphere_texture(World, m, filepath))

CreateToonTexture ==
    \E m \in Callers, filepath \in Paths :
        Apply(create_toon_texture(World, m, filepath))

RemoveTexture ==
    \/ \E m \in Callers, index \in SlotIndices :
           Apply(remove_texture(World, m, index))
    \/ \E m \in BaseCallers : Apply(remove_texture(World, m, BASE_TEX_SLOT))

RemoveSphereTexture ==
    \E m \in Callers : Apply(remove_sphere_texture(World, m))

RemoveToonTexture ==
    \E m \in Callers : Apply(remove_toon_texture(World, m))

UpdateSphereTextureType ==
    \E m \in Callers : Apply(update_sphere_texture_type(World, m))

UpdateToonTexture ==
    \E m \in Callers : Apply(update_toon_texture(World, m))

UpdateDropShadow ==
    \E m \in Callers : Apply(update_drop_shadow(World, m))

UpdateSelfShadowMap ==
    \E m \in Callers : Apply(update_self_shadow_map(World, m))

UpdateSelfShadow ==
    \E m \in Callers : Apply(update_self_shadow(World, m))

NextSlots ==
    \/ CreateTexture
    \/ CreateSphereTexture
    \/ CreateToonTexture
    \/ RemoveTexture
    \/ RemoveSphereTexture
    \/ RemoveToonTexture
    \/ UpdateSphereTextureType
    \/ UpdateToonTexture

NextId == ReadMaterialId

NextShadow ==
    \/ UpdateSelfShadowMap
    \/ UpdateSelfShadow
    \/ UpdateDropShadow

\* The derived-state synchronisations, on slots the create and remove
\* operations have filled and emptied.
NextUpdate ==
    \/ UpdateSphereTextureType
    \/ UpdateToonTexture
    \/ UpdateSelfShadowMap
    \/ UpdateSelfShadow
    \/ UpdateDropShadow
    \/ CreateSphereTexture
    \/ CreateToonTexture
    \/ RemoveTexture

Next == NextId \/ NextSlots \/ NextShadow

\* Every operation on every scene.  The ids, the texture slots and the
\* shadow flags are disjoint parts of the state, each read and written by
\* its own operations only, and are explored apart in the
\* specifications below.
Spec == Init /\ [][Next]_vars

\* The lazy id allocation.
SpecId == InitId /\ [][NextId]_vars

\* The slot lifecycle.
SpecSlots == InitSlots /\ [][NextSlots]_vars

\* The synchronisation of derived state.
SpecUpdate == InitUpdate /\ [][NextUpdate]_vars

\* The slot lifecycle on scenes that start without textures and images.
SpecEmpty == InitEmpty /\ [][NextSlots]_vars

(* ------------------------------------------------------------------ *)
(* Properties                                                          *)
(* ------------------------------------------------------------------ *)
\* The paths the properties are stated for: those the callers pass and
\* those update_toon_texture composes.
InputPaths ==
    Paths \cup {"foo.png", "/toons/Toon01.bmp", "/toons/toon03.bmp",
                "/toons/toon10.bmp"}

\* The state part of a world.
StateOf(w) == <<w.mmd, w.mat, w.slots, w.tex, w.img>>

\* The slots of w that reference texture t.
slots_of(w, t) ==
    {s \in Materials \X SlotIndices :
        w.slots[s[1]][s[2]].present /\ w.slots[s[1]][s[2]].texture = t}

\* The textures of w that reference image i.
textures_of(w, i) == {t \in DOMAIN w.tex : w.tex[t].image = i}

(* ---- C3 ---------------------------------------------------------- *)
\* C3: material_id uniqueness.  From a scene in which no two materials
\* share a non-negative material_id, after any sequence of material_id
\* reads, at most one material holds any given non-negative id.
MaterialIdUnique ==
    \A id \in 0..MaxMaterialId :
        Cardinality(from_material_id(World, id)) <= 1

\* Two materials hold ids the lazy getter has allocated.
MaterialIdUniqueWitness ==
    \E m1, m2 \in Materials :
        /\ m1 # m2
        /\ mmd_material[m1].material_id > MaxInitId
        /\ mmd_material[m2].material_id > MaxInitId

(* ---- C4 ---------------------------------------------------------- *)
\* What the claim says a read of an unassigned id returns: one more than
\* the largest id of the scene, 0 when every material is unassigned.
expected_new_id ==
    LET ids == {mmd_material[m].material_id : m \in Materials}
    IN IF \A x \in ids : x < 0
       THEN 0
       ELSE (CHOOSE x \in ids : \A y \in ids : y <= x) + 1

\* C4: lazy id assignment.  Reading material_id on a material whose
\* stored id is negative stores and returns max(ids)+1 (0 when every
\* material is unassigned) and changes nothing else; a second read returns
\* the same value and changes nothing; reading an assigned id returns it
\* and changes nothing.
LazyIdAssignment ==
    \A m \in Materials :
        LET r1 == material_id(World, m)
            r2 == material_id(r1.w, m)
        IN IF mmd_material[m].material_id < 0
           THEN /\ r1.ret = expected_new_id
                /\ r1.w = [World EXCEPT !.mmd[m].material_id = expected_new_id]
                /\ r2.ret = r1.ret
                /\ r2.w = r1.w
           ELSE /\ r1.ret = mmd_material[m].material_id
                /\ r1.w = World

\* A read has allocated an id above those of the importer while another
\* material is still unassigned and a third was assigned from the start.
LazyIdAssignmentWitness ==
    \E m1, m2, m3 \in Materials :
        /\ mmd_material[m1].material_id > MaxInitId
        /\ mmd_material[m2].material_id < 0
        /\ mmd_material[m3].material_id \in 0..MaxInitId

(* ---- C1 ---------------------------------------------------------- *)
\* C1, as claimed: after create_texture(path) on a material followed by
\* remove_texture(BASE) on it, if no other slot references the same
\* Texture then the Texture and its Image are both absent from the store;
\* if some other slot still references it then both are still there.
RefCountedCleanupAsClaimed ==
    \A m \in Materials, path \in InputPaths :
        LET w1 == create_texture(World, m, path)
            t  == w1.slots[m][BASE_TEX_SLOT].texture
            i  == w1.tex[t].image
            w2 == remove_texture(w1, m, BASE_TEX_SLOT)
        IN IF slots_of(w2, t) = {}
           THEN t \notin DOMAIN w2.tex /\ i \notin DOMAIN w2.img
           ELSE t \in DOMAIN w2.tex /\ i \in DOMAIN w2.img

\* C1, amended: as claimed, but when no other slot references the Texture
\* its Image is absent exactly when no Texture left in the store
\* references that Image; an Image another Texture still wraps stays.
RefCountedCleanup ==
    \A m \in Materials, path \in InputPaths :
        LET w1 == create_texture(World, m, path)
            t  == w1.slots[m][BASE_TEX_SLOT].texture
            i  == w1.tex[t].image
            w2 == remove_texture(w1, m, BASE_TEX_SLOT)
        IN IF slots_of(w2, t) = {}
           THEN /\ t \notin DOMAIN w2.tex
                /\ i \notin DOMAIN w2.img <=> textures_of(w2, i) = {}
           ELSE t \in DOMAIN w2.tex /\ i \in DOMAIN w2.img

\* remove_texture has deleted the texture "a" and left its image, which
\* the texture "a.001" still wraps; and from this state create_texture
\* followed by remove_texture deletes a texture together with its image,
\* and leaves a texture that another slot holds.
RefCountedCleanupWitness ==
    /\ "a" \notin DOMAIN textures
    /\ "a.png" \in DOMAIN images
    /\ textures_of(World, "a.png") = {"a.001"}
    /\ \E m \in Materials, path \in InputPaths :
           LET w1 == create_texture(World, m, path)
               t  == w1.slots[m][BASE_TEX_SLOT].texture
               w2 == remove_texture(w1, m, BASE_TEX_SLOT)
           IN t \notin DOMAIN textures /\ t \notin DOMAIN w2.tex
                  /\ w1.tex[t].image \notin DOMAIN w2.img
    /\ \E m \in Materials, path \in InputPaths :
           LET w1 == create_texture(World, m, path)
               t  == w1.slots[m][BASE_TEX_SLOT].texture
               w2 == remove_texture(w1, m, BASE_TEX_SLOT)
           IN slots_of(w2, t) # {} /\ t \in DOMAIN w2.tex

(* ---- C2 ---------------------------------------------------------- *)
\* C2: dedup idempotence.  Two consecutive calls of load_image with the
\* same path return the identical Image and the store gains at most one
\* Image; likewise load_texture and Textures; whether the file loads or
\* not.
DedupIdempotence ==
    \A path \in InputPaths :
        LET i1 == load_image(World, path)
            i2 == load_image(i1.w, path)
            t1 == load_texture(World, path)
            t2 == load_texture(t1.w, path)
        IN /\ i2.ret = i1.ret
           /\ i1.ret \in DOMAIN i2.w.img
           /\ Cardinality(DOMAIN i2.w.img \ DOMAIN images) <= 1
           /\ t2.ret = t1.ret
           /\ t1.ret \in DOMAIN t2.w.tex
           /\ Cardinality(DOMAIN t2.w.tex \ DOMAIN textures) <= 1
           /\ Cardinality(DOMAIN t2.w.img \ DOMAIN images) <= 1

\* A store that holds a placeholder and an image found under another path
\* of its file, in which a path that loads and a path that does not both
\* have no image yet, so that the first call creates one (a loaded image,
\* a placeholder) and the second finds it.
DedupIdempotenceWitness ==
    /\ \E t \in DOMAIN textures :
           images[textures[t].image].size = <<1, 1>>
    /\ \E path \in InputPaths, i \in DOMAIN images :
           images[i].filepath # path /\ same_image_file(World, i, path)
    /\ \E path \in InputPaths :
           /\ can_load(path)
           /\ load_image(World, path).ret \notin DOMAIN images
           /\ load_texture(World, path).ret \notin DOMAIN textures
    /\ \E path \in InputPaths :
           /\ ~can_load(path)
           /\ load_image(World, path).ret \notin DOMAIN images
           /\ load_texture(World, path).ret \notin DOMAIN textures

(* ---- C7 ---------------------------------------------------------- *)
\* C7: missing-file degradation.  When the file cannot be loaded and no
\* image matches it, load_image logs one warning and returns a new 1x1
\* placeholder with source FILE and the requested filepath; and
\* create_texture, create_toon_texture and create_sphere_texture, with
\* any path, end with their slot present and referencing a Texture of the
\* store whose Image is in the store.
slot_is_backed(w, m, index) ==
    /\ w.slots[m][index].present
    /\ w.slots[m][index].texture \in DOMAIN w.tex
    /\ w.tex[w.slots[m][index].texture].image \in DOMAIN w.img

MissingFileDegradation ==
    \A path \in InputPaths :
        /\ (/\ ~can_load(path)
            /\ \A i \in DOMAIN images : ~same_image_file(World, i, path))
           => LET r == load_image(World, path)
              IN /\ r.ret \notin DOMAIN images
                 /\ DOMAIN r.w.img = DOMAIN images \cup {r.ret}
                 /\ r.w.img[r.ret].size = <<1, 1>>
                 /\ r.w.img[r.ret].source = "FILE"
                 /\ r.w.img[r.ret].filepath = path
                 /\ Len(r.w.log) = 1
        /\ \A m \in Materials :
              /\ slot_is_backed(create_texture(World, m, path), m,
                                BASE_TEX_SLOT)
              /\ slot_is_backed(create_toon_texture(World, m, path), m,
                                TOON_TEX_SLOT)
              /\ slot_is_backed(create_sphere_texture(World, m, path), m,
                                SPHERE_TEX_SLOT)

\* A slot holds a texture whose image is the placeholder of a file that
\* could not be loaded, and another missing file has no image yet.
MissingFileDegradationWitness ==
    /\ \E m \in Materials, index \in SlotIndices :
           /\ slot_is_backed(World, m, index)
           /\ LET i == textures[texture_slots[m][index].texture].image
              IN images[i].size = <<1, 1>> /\ ~can_load(images[i].filepath)
    /\ \E path \in InputPaths :
           /\ ~can_load(path)
           /\ \A i \in DOMAIN images : ~same_image_file(World, i, path)

(* ---- C10 --------------------------------------------------------- *)
\* C10: reference integrity.  In every state, every existing slot
\* references a Texture that is in the store and every Texture of the
\* store references an Image that is in the store; a Texture leaves the
\* store only when no slot references it, an Image only when no Texture
\* does; and remove_texture on an empty slot changes nothing.
ReferenceIntegrity ==
    /\ \A m \in Materials, index \in SlotIndices :
           /\ texture_slots[m][index].present
                  => texture_slots[m][index].texture \in DOMAIN textures
           /\ ~texture_slots[m][index].present
                  => remove_texture(World, m, index) = World
    /\ \A t \in DOMAIN textures : textures[t].image \in DOMAIN images
    /\ \A m \in Materials, index \in SlotIndices :
           LET w2 == remove_texture(World, m, index)
           IN /\ \A t \in DOMAIN textures \ DOMAIN w2.tex :
                     slots_of(w2, t) = {}
              /\ \A i \in DOMAIN images \ DOMAIN w2.img :
                     textures_of(w2, i) = {}

\* A texture is held by two slots, so that removing one of them keeps it;
\* another removal deletes a texture and its image; a third deletes a
\* texture and keeps the image another texture wraps.
ReferenceIntegrityWitness ==
    /\ \E t \in DOMAIN textures : Cardinality(slots_of(World, t)) >= 2
    /\ \E m \in Materials, index \in SlotIndices :
           LET w2 == remove_texture(World, m, index)
           IN DOMAIN w2.tex # DOMAIN textures /\ DOMAIN w2.img # DOMAIN images
    /\ \E m \in Materials, index \in SlotIndices :
           LET w2 == remove_texture(World, m, index)
           IN DOMAIN w2.tex # DOMAIN textures /\ DOMAIN w2.img = DOMAIN images

(* ---- C8 ---------------------------------------------------------- *)
\* No Texture of the store is without a referencing slot and no Image
\* without a referencing Texture.
NoOrphans ==
    /\ \A t \in DOMAIN textures : slots_of(World, t) # {}
    /\ \A i \in DOMAIN images : textures_of(World, i) # {}

\* C8: eager cleanup.  From an empty store, whenever remove_texture,
\* remove_toon_texture or remove_sphere_texture has just completed, the
\* store contains no Texture with zero referencing slots and no Image with
\* zero referencing Textures, also after a create_* call has overwritten a
\* slot that held a different Texture.
EagerCleanup ==
    [][(RemoveTexture \/ RemoveSphereTexture \/ RemoveToonTexture)
           => NoOrphans']_vars

(* ---- C5 ---------------------------------------------------------- *)
\* The blend mode the claim gives for a sphere texture type.
expected_blend_type(type) ==
    CASE type = "1" -> "MULTIPLY"
      [] type = "2" -> "ADD"
      [] type = "3" -> "SUBTRACT"

\* C5: sphere blend table.  With the SPHERE slot present,
\* update_sphere_texture_type with type 1, 2, 3 enables the slot and sets
\* its blend mode to MULTIPLY, ADD, SUBTRACT; with any other value it
\* disables the slot and leaves it in place, texture and blend mode
\* unchanged; without SPHERE slot it changes nothing.
SphereBlendTable ==
    \A m \in Materials :
        LET type == mmd_material[m].sphere_texture_type
            old  == texture_slots[m][SPHERE_TEX_SLOT]
            w2   == update_sphere_texture_type(World, m)
        IN IF ~old.present
           THEN w2 = World
           ELSE IF type \in {"1", "2", "3"}
           THEN w2 = [World EXCEPT
                        !.slots[m][SPHERE_TEX_SLOT].use = TRUE,
                        !.slots[m][SPHERE_TEX_SLOT].blend_type =
                            expected_blend_type(type)]
           ELSE w2 = [World EXCEPT !.slots[m][SPHERE_TEX_SLOT].use = FALSE]

\* update_sphere_texture_type has disabled a sphere slot that keeps its
\* texture and the blend mode ADD it had.
SphereBlendTableWitness ==
    \E m \in Materials :
        /\ mmd_material[m].sphere_texture_type = "0"
        /\ texture_slots[m][SPHERE_TEX_SLOT].present
        /\ ~texture_slots[m][SPHERE_TEX_SLOT].use
        /\ texture_slots[m][SPHERE_TEX_SLOT].blend_type = "ADD"
        /\ texture_slots[m][SPHERE_TEX_SLOT].texture \in DOMAIN textures

(* ---- C6 ---------------------------------------------------------- *)
\* The file the claim names for a shared toon index: toon<NN>.bmp in the
\* shared folder, NN the index plus one on two digits (as the directory
\* spells it).
expected_shared_toon(index) ==
    CASE index = 0 -> "/toons/Toon01.bmp"
      [] index = 2 -> "/toons/toon03.bmp"
      [] index = 9 -> "/toons/toon10.bmp"

\* The TOON slot of m in w holds a texture of the file at path.
toon_slot_holds(w, m, path) ==
    /\ slot_is_backed(w, m, TOON_TEX_SLOT)
    /\ w.img[w.tex[w.slots[m][TOON_TEX_SLOT].texture].image].filepath = path

\* C6: toon branch exclusivity.  update_toon_texture does exactly one of:
\* with is_shared_toon_texture set, create the TOON slot from
\* toon<NN>.bmp of the shared folder whatever toon_texture is; else with
\* a non-empty toon_texture, create it from that path; else remove it.
\* Afterwards the TOON slot exists iff is_shared_toon_texture is set or
\* toon_texture is non-empty.
ToonBranchExclusivity ==
    \A m \in Materials :
        LET mmd_mat == mmd_material[m]
            w2      == update_toon_texture(World, m)
        IN /\ mmd_mat.is_shared_toon_texture =>
                 /\ StateOf(w2) = StateOf(create_toon_texture(World, m,
                        expected_shared_toon(mmd_mat.shared_toon_texture)))
                 /\ toon_slot_holds(w2, m,
                        expected_shared_toon(mmd_mat.shared_toon_texture))
           /\ (~mmd_mat.is_shared_toon_texture /\ mmd_mat.toon_texture # "") =>
                 /\ StateOf(w2) = StateOf(create_toon_texture(World, m,
                                              mmd_mat.toon_texture))
                 /\ toon_slot_holds(w2, m, mmd_mat.toon_texture)
           /\ (~mmd_mat.is_shared_toon_texture /\ mmd_mat.toon_texture = "") =>
                 /\ StateOf(w2) = StateOf(remove_toon_texture(World, m))
                 /\ ~w2.slots[m][TOON_TEX_SLOT].present
           /\ w2.slots[m][TOON_TEX_SLOT].present
                  <=> (mmd_mat.is_shared_toon_texture
                          \/ mmd_mat.toon_texture # "")

\* update_toon_texture has put the placeholder of the missing toon10.bmp
\* into the TOON slot of a material whose toon_texture names foo.png.
ToonBranchExclusivityWitness ==
    \E m \in Materials :
        /\ mmd_material[m].is_shared_toon_texture
        /\ mmd_material[m].shared_toon_texture = 9
        /\ mmd_material[m].toon_texture = "foo.png"
        /\ toon_slot_holds(World, m, "/toons/toon10.bmp")

(* ---- C9 ---------------------------------------------------------- *)
\* C9: idempotence of the derived-state synchronisation.  With the
\* material properties fixed, calling update_sphere_texture_type,
\* update_toon_texture, update_self_shadow_map, update_self_shadow or
\* update_drop_shadow twice in a row leaves the same flags, slots,
\* Textures and Images as calling it once.
UpdateIdempotence ==
    \A m \in Materials :
        /\ LET w1 == update_sphere_texture_type(World, m)
           IN StateOf(update_sphere_texture_type(w1, m)) = StateOf(w1)
        /\ LET w1 == update_toon_texture(World, m)
           IN StateOf(update_toon_texture(w1, m)) = StateOf(w1)
        /\ LET w1 == update_self_shadow_map(World, m)
           IN StateOf(update_self_shadow_map(w1, m)) = StateOf(w1)
        /\ LET w1 == update_self_shadow(World, m)
           IN StateOf(update_self_shadow(w1, m)) = StateOf(w1)
        /\ LET w1 == update_drop_shadow(World, m)
           IN StateOf(update_drop_shadow(w1, m)) = StateOf(w1)

\* The updates have acted (the flags differ from Blender's defaults, the
\* sphere slot is disabled) and a further update_toon_texture replaces
\* the texture of the TOON slot by one it has to create.
UpdateIdempotenceWitness ==
    \E m \in Materials :
        /\ material[m].use_transparent_shadows
        /\ ~material[m].use_cast_buffer_shadows
        /\ texture_slots[m][SPHERE_TEX_SLOT].present
        /\ ~texture_slots[m][SPHERE_TEX_SLOT].use
        /\ texture_slots[m][TOON_TEX_SLOT].present
        /\ LET w1 == update_toon_texture(World, m)
           IN /\ w1.slots[m][TOON_TEX_SLOT].texture \notin DOMAIN textures
              /\ w1.slots[m][TOON_TEX_SLOT].present

====
